---- MODULE Spec2Model ----
(***************************************************************************)
(* browrs: a terminal directory browser (src/src/main.rs).                 *)
(*                                                                         *)
(* The model is the App state machine: the fields of struct App, the main  *)
(* loop of App::run (draw, then one blocking event read), the key handlers *)
(* of App::handle_key_event, the editor hand-off of App::open_file_in_vim  *)
(* and the scroll computation Widget::render performs on a copy of App.    *)
(*                                                                         *)
(* File names are sequences of bytes, so that Vec<String>::sort (byte      *)
(* order) and starts_with('.') are computed and not assumed. A path is the *)
(* sequence of its components below the filesystem root; the root is <<>>. *)
(***************************************************************************)
EXTENDS Integers, Sequences, FiniteSets, TLC

VARIABLES
    fs,               \* the filesystem: path -> [kind, readable, children]
    current_dir,      \* App.current_dir
    files,            \* App.files
    selected,         \* App.selected (0-based, as in the code)
    scroll,           \* App.scroll
    preview_content,  \* App.preview_content
    exit,             \* App.exit
    pc,               \* position of the main loop
    terminal,         \* "ui" after ratatui::init, "restored" after ratatui::restore
    frame             \* what the last Widget::render computed

vars == <<fs, current_dir, files, selected, scroll, preview_content, exit, pc, terminal, frame>>

app == <<current_dir, files, selected, scroll, preview_content, exit>>

----------------------------------------------------------------------------
(* Bounds of the model.                                                    *)

\* list_rect.height ranges over 0..MaxRectHeight in a draw
MaxRectHeight == 12

\* SpecScroll starts in a home directory whose listing has 1..ScrollSmall
\* or ScrollBig entries
ScrollSmall == 6

ScrollBig == 100

\* SpecPreview previews directories of up to MaxChildren visible children
MaxChildren == 45

----------------------------------------------------------------------------
(* Names.                                                                  *)

\* '/' , the marker read_dir appends to directory names
Slash == 47

\* '.' , the first byte of a hidden name
Dot == 46

\* ".." , the parent entry
DotDot == <<Dot, Dot>>

NameHome == <<104>>                  \* "h"

NameA == <<97>>                      \* "a"      a directory

NameT == <<116>>                     \* "t"      a file
NameDash == <<45>>                   \* "-"      a file; '-' < '.'
NameImg == <<98, 46, 80, 78, 71>>    \* "b.PNG"  a file
NameHidden == <<46, 99>>             \* ".c"     a hidden file
NameLink == <<108>>                  \* "l"      a symbolic link

\* the i-th numbered file name, two decimal digits
NameNum(i) == <<48 + (i \div 10), 48 + (i % 10)>>

Root == <<>>

Home == <<NameHome>>

----------------------------------------------------------------------------
(* usize arithmetic and str helpers.                                       *)

saturating_sub(a, b) == IF a > b THEN a - b ELSE 0

Min(a, b) == IF a <= b THEN a ELSE b

\* a < b for str / String: lexicographic order of the bytes
StrLess(a, b) ==
    LET n == Min(Len(a), Len(b))
        D == {i \in 1..n : a[i] # b[i]}
    IN  IF D = {} THEN Len(a) < Len(b)
        ELSE LET i == CHOOSE k \in D : \A j \in D : k <= j
             IN  a[i] < b[i]

starts_with(s, c) == Len(s) >= 1 /\ s[1] = c

RECURSIVE trim_end_matches(_, _)
trim_end_matches(s, c) ==
    IF Len(s) >= 1 /\ s[Len(s)] = c
    THEN trim_end_matches(SubSeq(s, 1, Len(s) - 1), c)
    ELSE s

\* u8::to_ascii_lowercase on one byte
LowerByte(b) == IF b >= 65 /\ b <= 90 THEN b + 32 ELSE b

to_lowercase(s) == [i \in 1..Len(s) |-> LowerByte(s[i])]

----------------------------------------------------------------------------
(* Paths and the filesystem.                                               *)

\* Path::join with a single relative component
join(p, name) == Append(p, name)

HasParent(p) == Len(p) >= 1

\* Path::parent, where it is Some
parent(p) == SubSeq(p, 1, Len(p) - 1)

\* a directory: whether it can be listed, and the names of its children in
\* the order the operating system yields them
DirNode(r, c) ==
    [kind |-> "dir", readable |-> r, children |-> c, target |-> <<>>, content |-> <<>>]

\* a run of n equal bytes b; the content of a file is a sequence of runs
Run(b, n) == [b |-> b, n |-> n]

\* a regular file: whether it can be opened for reading, and its bytes
FileOf(r, c) ==
    [kind |-> "file", readable |-> r, children |-> <<>>, target |-> <<>>, content |-> c]

\* the one-line text file "A\n"
FileNode == FileOf(TRUE, <<Run(65, 1), Run(10, 1)>>)

\* a symbolic link to the path target
LinkNode(target) ==
    [kind |-> "link", readable |-> TRUE, children |-> <<>>, target |-> target, content |-> <<>>]

\* the directory entry p itself, symbolic links not followed
Exists(f, p) == p \in DOMAIN f

\* the path the operating system resolves p to, following the symbolic
\* links among its components
RECURSIVE canonicalize(_, _)
canonicalize(f, p) ==
    IF p = Root THEN Root
    ELSE LET q == join(canonicalize(f, parent(p)), p[Len(p)])
         IN  IF Exists(f, q) /\ f[q].kind = "link"
             THEN canonicalize(f, f[q].target)
             ELSE q

\* Path::is_dir and Path::is_file follow symbolic links
is_dir(f, p) == Exists(f, canonicalize(f, p)) /\ f[canonicalize(f, p)].kind = "dir"

is_file(f, p) == Exists(f, canonicalize(f, p)) /\ f[canonicalize(f, p)].kind = "file"

\* DirEntry::file_type of the entry `name` of directory p, which does not
\* follow a symbolic link: its is_dir()
file_type_is_dir(f, p, name) ==
    LET q == join(canonicalize(f, p), name)
    IN  Exists(f, q) /\ f[q].kind = "dir"

\* std::fs::read_dir(p) is Ok
CanList(f, p) == is_dir(f, p) /\ f[canonicalize(f, p)].readable

----------------------------------------------------------------------------
(* App::read_dir.                                                          *)

NotHidden(name) == ~starts_with(name, Dot)

\* what the loop over std::fs::read_dir(p) pushes: hidden names are
\* skipped, directory names get the trailing '/'
EntryNames(f, p) ==
    LET visible == SelectSeq(f[canonicalize(f, p)].children, NotHidden)
    IN  [i \in 1..Len(visible) |->
            IF file_type_is_dir(f, p, visible[i]) THEN Append(visible[i], Slash)
            ELSE visible[i]]

\* Vec<String>::sort
sort(entries) == SortSeq(entries, StrLess)

\* App::read_dir: [ok |-> FALSE] is Err, otherwise the entries
read_dir(f, p) ==
    IF ~CanList(f, p) THEN [ok |-> FALSE, entries |-> <<>>]
    ELSE [ok |-> TRUE, entries |-> sort(<<DotDot>> \o EntryNames(f, p))]

----------------------------------------------------------------------------
(* App::update_preview.                                                    *)

\* the parts of the text update_preview stores that vary: which message it
\* is and for which path; the byte size it reports; for a text file the
\* line count of the header, the lines shown and the "more lines" figure;
\* for a directory the two counts, the items shown and the "more items"
\* figure (more = 0: no such trailer)
Preview(tag, path) ==
    [tag |-> tag, path |-> path, size |-> 0, total_lines |-> 0, lines |-> <<>>,
     dirs |-> 0, files |-> 0, items |-> <<>>, more |-> 0]

\* preview_content: None
NoPreview == Preview("None", <<>>)

ImageExts ==
    { <<112, 110, 103>>,       \* png
      <<106, 112, 103>>,       \* jpg
      <<106, 112, 101, 103>>,  \* jpeg
      <<103, 105, 102>>,       \* gif
      <<98, 109, 112>>,        \* bmp
      <<119, 101, 98, 112>>,   \* webp
      <<115, 118, 103>>,       \* svg
      <<105, 99, 111>> }       \* ico

\* Path::extension of a file name: the bytes after the last '.', if the
\* name has a '.' that is not its first byte; <<>> stands for None
extension(name) ==
    LET D == {i \in 2..Len(name) : name[i] = Dot}
    IN  IF D = {} \/ name = DotDot THEN <<>>
        ELSE LET i == CHOOSE k \in D : \A j \in D : j <= k
             IN  SubSeq(name, i + 1, Len(name))

MaxPreviewBytes == 1048576

BinaryWindow == 1024

MaxPreviewLines == 50

\* Vec<u8>::len of a file's content
RECURSIVE ByteLen(_)
ByteLen(content) ==
    IF content = <<>> THEN 0
    ELSE content[Len(content)].n + ByteLen(SubSeq(content, 1, Len(content) - 1))

\* the closure of the binary test
is_binary_byte(b) == b = 0 \/ (b < 32 /\ b # 9 /\ b # 10 /\ b # 13)

\* bytes.iter().take(1024).any(..): a run that starts inside the window
\* has a byte in it
looks_binary(content) ==
    \E i \in 1..Len(content) :
        /\ ByteLen(SubSeq(content, 1, i - 1)) < BinaryWindow
        /\ is_binary_byte(content[i].b)

\* String::from_utf8 is Ok. The contents drawn hold ASCII bytes and the
\* byte 0xFF, which no UTF-8 sequence contains
from_utf8_ok(content) == \A i \in 1..Len(content) : content[i].b < 128

\* k equal lines, each the sequence of runs `line`
LineRun(line, k) == [line |-> line, n |-> k]

\* str::lines strips one '\r' that precedes the '\n' of a line
strip_cr(line) ==
    IF line # <<>> /\ line[Len(line)].b = 13
    THEN IF line[Len(line)].n = 1 THEN SubSeq(line, 1, Len(line) - 1)
         ELSE [line EXCEPT ![Len(line)].n = @ - 1]
    ELSE line

\* str::lines on the runs from the i-th on, `cur` being the bytes of the
\* line read so far: every '\n' ends a line, a last line needs none
RECURSIVE lines_from(_, _, _)
lines_from(content, i, cur) ==
    IF i > Len(content) THEN (IF cur = <<>> THEN <<>> ELSE <<LineRun(cur, 1)>>)
    ELSE IF content[i].b = 10
         THEN <<LineRun(strip_cr(cur), 1)>>
              \o (IF content[i].n > 1 THEN <<LineRun(<<>>, content[i].n - 1)>> ELSE <<>>)
              \o lines_from(content, i + 1, <<>>)
         ELSE lines_from(content, i + 1, Append(cur, content[i]))

lines(content) == lines_from(content, 1, <<>>)

\* Iterator::count on lines
RECURSIVE count(_)
count(ls) == IF ls = <<>> THEN 0 ELSE ls[1].n + count(Tail(ls))

\* Iterator::take on lines
RECURSIVE take(_, _)
take(ls, k) ==
    IF ls = <<>> \/ k = 0 THEN <<>>
    ELSE IF ls[1].n >= k THEN <<LineRun(ls[1].line, k)>>
         ELSE <<ls[1]>> \o take(Tail(ls), k - ls[1].n)

\* text_preview, had it announced more lines from 50 lines on
text_preview_OffByOne(p, len, content) ==
    [Preview("Text", p) EXCEPT
        !.size = len,
        !.total_lines = count(lines(content)),
        !.lines = take(lines(content), MaxPreviewLines),
        !.more = IF count(lines(content)) >= MaxPreviewLines
                 THEN count(lines(content)) - MaxPreviewLines + 1 ELSE 0]

\* the Ok(content) arm of read_file_preview: header, the first 50 lines
\* and, for more than 50 lines, the trailer with the number left out
text_preview(p, len, content) ==
    [Preview("Text", p) EXCEPT
        !.size = len,
        !.total_lines = count(lines(content)),
        !.lines = take(lines(content), MaxPreviewLines),
        !.more = IF count(lines(content)) > MaxPreviewLines
                 THEN count(lines(content)) - MaxPreviewLines ELSE 0]

\* read_file_preview, had the size test been >=
read_file_preview_AtLeast(f, p) ==
    LET q == canonicalize(f, p)
        len == ByteLen(f[q].content)
    IN  IF Exists(f, q) /\ len >= MaxPreviewBytes
        THEN [Preview("TooLarge", p) EXCEPT !.size = len]
        ELSE IF ~(Exists(f, q) /\ f[q].kind = "file" /\ f[q].readable)
        THEN Preview("ReadError", p)
        ELSE IF looks_binary(f[q].content)
        THEN [Preview("Binary", p) EXCEPT !.size = len]
        ELSE IF ~from_utf8_ok(f[q].content)
        THEN [Preview("InvalidUtf8", p) EXCEPT !.size = len]
        ELSE text_preview(p, len, f[q].content)

\* App::read_file_preview: too large by its metadata, else unreadable,
\* else binary, else not UTF-8, else text
read_file_preview(f, p) ==
    LET q == canonicalize(f, p)
        len == ByteLen(f[q].content)
    IN  IF Exists(f, q) /\ len > MaxPreviewBytes
        THEN [Preview("TooLarge", p) EXCEPT !.size = len]
        ELSE IF ~(Exists(f, q) /\ f[q].kind = "file" /\ f[q].readable)
        THEN Preview("ReadError", p)
        ELSE IF looks_binary(f[q].content)
        THEN [Preview("Binary", p) EXCEPT !.size = len]
        ELSE IF ~from_utf8_ok(f[q].content)
        THEN [Preview("InvalidUtf8", p) EXCEPT !.size = len]
        ELSE text_preview(p, len, f[q].content)

MaxPreviewItems == 30

KiB == 1024

DirMark == <<240, 159, 147, 129, 32>>    \* the folder sign and a space

FileMark == <<240, 159, 147, 132, 32>>   \* the page sign and a space

\* Display of an unsigned integer: its decimal digits
RECURSIVE Digits(_)
Digits(n) == IF n < 10 THEN <<48 + n>> ELSE Append(Digits(n \div 10), 48 + (n % 10))

\* "{:.1}" of len as f64 / 1024.0: one decimal, a tie rounded to even
Fixed1(len) ==
    LET t == (len * 10) \div KiB
        r == (len * 10) % KiB
        tenths == IF r * 2 > KiB \/ (r * 2 = KiB /\ t % 2 = 1) THEN t + 1 ELSE t
    IN  Digits(tenths \div 10) \o <<Dot, 48 + (tenths % 10)>>

\* " ({:.1} KB)" above 1024 bytes, " ({} B)" otherwise
size_info(len) ==
    IF len > KiB THEN <<32, 40>> \o Fixed1(len) \o <<32, 75, 66, 41>>
    ELSE <<32, 40>> \o Digits(len) \o <<32, 66, 41>>

\* the length in bytes of a path written out, "/h/a"
RECURSIVE PathLen(_)
PathLen(p) == IF p = Root THEN 0 ELSE 1 + Len(p[Len(p)]) + PathLen(parent(p))

\* DirEntry::metadata().len() of a non-directory (symbolic links are not
\* followed: the length of a link is that of its target's path)
entry_len(f, q) ==
    IF f[q].kind = "link" THEN PathLen(f[q].target) ELSE ByteLen(f[q].content)

\* total_size after the loop over the entries
RECURSIVE total_len(_, _, _)
total_len(f, q, names) ==
    IF names = <<>> THEN 0
    ELSE entry_len(f, join(q, names[1])) + total_len(f, q, Tail(names))

\* App::read_dir_preview: the formatted directories and files, each Vec
\* sorted, the counts, the total, the first 30 items and the number left
read_dir_preview(f, p) ==
    LET q == canonicalize(f, p)
        IsDir(name) == file_type_is_dir(f, p, name)
        IsOther(name) == ~file_type_is_dir(f, p, name)
        visible == SelectSeq(f[q].children, NotHidden)
        dnames == SelectSeq(visible, IsDir)
        fnames == SelectSeq(visible, IsOther)
        dir_items == sort([i \in 1..Len(dnames) |-> DirMark \o dnames[i] \o <<Slash>>])
        file_items == sort([i \in 1..Len(fnames) |->
                              FileMark \o fnames[i] \o size_info(entry_len(f, join(q, fnames[i])))])
        items == dir_items \o file_items
    IN  IF ~CanList(f, p) THEN Preview("DirError", p)
        ELSE [Preview("DirectorySummary", p) EXCEPT
                !.dirs = Len(dir_items),
                !.files = Len(file_items),
                !.size = total_len(f, q, fnames),
                !.items = SubSeq(items, 1, Min(Len(items), MaxPreviewItems)),
                !.more = IF Len(items) > MaxPreviewItems
                         THEN Len(items) - MaxPreviewItems ELSE 0]

\* the preview update_preview stores for entry `name` of directory cd
GenPreview(f, cd, name) ==
    IF name = DotDot THEN Preview("ParentHint", <<>>)
    ELSE LET selected_path == join(cd, trim_end_matches(name, Slash))
         IN  IF is_dir(f, selected_path) THEN read_dir_preview(f, selected_path)
             ELSE IF is_file(f, selected_path)
                  THEN IF to_lowercase(extension(selected_path[Len(selected_path)])) \in ImageExts
                       THEN Preview("ImagePlaceholder", selected_path)
                       ELSE read_file_preview(f, selected_path)
                  ELSE Preview("Unable", selected_path)

update_preview(f, cd, fl, sel) ==
    IF sel < Len(fl) THEN GenPreview(f, cd, fl[sel + 1]) ELSE NoPreview

----------------------------------------------------------------------------
(* App::update_scroll_with_height and Widget::render.                      *)

\* update_scroll_with_height, had it not clamped to max_scroll
update_scroll_NoClamp(sel, scr, len, max_visible) ==
    IF max_visible = 0 THEN scr
    ELSE LET scroll_threshold == Min(3, max_visible)
             visible_pos == saturating_sub(sel, scr)
         IN  IF visible_pos >= saturating_sub(max_visible, scroll_threshold)
             THEN LET max_scroll == saturating_sub(len, max_visible)
                  IN  IF scr < max_scroll
                      THEN saturating_sub(sel + scroll_threshold, max_visible - 1)
                      ELSE scr
             ELSE IF visible_pos < scroll_threshold
                  THEN IF sel >= scroll_threshold
                       THEN saturating_sub(sel, scroll_threshold)
                       ELSE 0
                  ELSE scr

\* update_scroll_with_height, had the bottom test been strict
update_scroll_Strict(sel, scr, len, max_visible) ==
    IF max_visible = 0 THEN scr
    ELSE LET scroll_threshold == Min(3, max_visible)
             visible_pos == saturating_sub(sel, scr)
         IN  IF visible_pos > saturating_sub(max_visible, scroll_threshold)
             THEN LET max_scroll == saturating_sub(len, max_visible)
                  IN  IF scr < max_scroll
                      THEN Min(saturating_sub(sel + scroll_threshold, max_visible - 1),
                               max_scroll)
                      ELSE scr
             ELSE IF visible_pos < scroll_threshold
                  THEN IF sel >= scroll_threshold
                       THEN saturating_sub(sel, scroll_threshold)
                       ELSE 0
                  ELSE scr

\* the value of self.scroll after update_scroll_with_height(max_visible)
update_scroll_with_height(sel, scr, len, max_visible) ==
    IF max_visible = 0 THEN scr
    ELSE LET scroll_threshold == Min(3, max_visible)
             visible_pos == saturating_sub(sel, scr)
         IN  IF visible_pos >= saturating_sub(max_visible, scroll_threshold)
             THEN LET max_scroll == saturating_sub(len, max_visible)
                  IN  IF scr < max_scroll
                      THEN Min(saturating_sub(sel + scroll_threshold, max_visible - 1),
                               max_scroll)
                      ELSE scr
             ELSE IF visible_pos < scroll_threshold
                  THEN IF sel >= scroll_threshold
                       THEN saturating_sub(sel, scroll_threshold)
                       ELSE 0
                  ELSE scr

\* update_scroll_with_height evaluates `max_visible - 1` (a usize
\* subtraction, which must not underflow): the early return was not taken
\* and both tests that lead to the assignment hold
evaluates_sub(sel, scr, len, max_visible) ==
    /\ max_visible # 0
    /\ saturating_sub(sel, scr) >= saturating_sub(max_visible, Min(3, max_visible))
    /\ scr < saturating_sub(len, max_visible)

\* render, had it not clamped the end of the slice to the list's length
render_NoMin(height) ==
    LET max_visible == saturating_sub(height, 2)
        s == update_scroll_with_height(selected, scroll, Len(files), max_visible)
    IN  [max_visible |-> max_visible,
         scroll |-> s,
         start |-> s,
         end |-> s + max_visible,
         sub_evaluated |-> evaluates_sub(selected, scroll, Len(files), max_visible)]

\* what render computes for a list rectangle of the given height: the
\* scroll of the copy of App, and the bounds of the slice files[start..end]
render(height) ==
    LET max_visible == saturating_sub(height, 2)
        s == update_scroll_with_height(selected, scroll, Len(files), max_visible)
    IN  [max_visible |-> max_visible,
         scroll |-> s,
         start |-> s,
         end |-> Min(s + max_visible, Len(files)),
         sub_evaluated |-> evaluates_sub(selected, scroll, Len(files), max_visible)]

NoFrame == [max_visible |-> 0, scroll |-> 0, start |-> 0, end |-> 0, sub_evaluated |-> FALSE]

----------------------------------------------------------------------------
(* The filesystems the program runs in.                                    *)

PathDash == join(Home, NameDash)

PathImg == join(Home, NameImg)

PathLink == join(Home, NameLink)

PathA == join(Home, NameA)

\* /h with the hidden file .c, the directory a (holding the file t) and
\* the symbolic link l to a; optionally the file "b.PNG" in /h and a file
\* "-" in / and in /h
SmallFS(dash, img, aread) ==
    LET P == {Root, Home, PathA, join(PathA, NameT), join(Home, NameHidden), PathLink}
             \cup (IF dash THEN {PathDash, join(Root, NameDash)} ELSE {})
             \cup (IF img THEN {PathImg} ELSE {})
        rootChildren == <<NameHome>> \o (IF dash THEN <<NameDash>> ELSE <<>>)
        homeChildren == (IF img THEN <<NameImg>> ELSE <<>>) \o <<NameHidden, NameLink, NameA>>
                        \o (IF dash THEN <<NameDash>> ELSE <<>>)
    IN  [p \in P |->
            IF p = Root THEN DirNode(TRUE, rootChildren)
            ELSE IF p = Home THEN DirNode(TRUE, homeChildren)
            ELSE IF p = PathA THEN DirNode(aread, <<NameT>>)
            ELSE IF p = PathLink THEN LinkNode(PathA)
            ELSE FileNode]

\* /h holding n - 1 visible children, so that its listing has n entries:
\* the files 01, 02, ... and (for n >= 2) the directory a
BigFS(n) ==
    LET P == {Root, Home, join(Home, NameHidden)}
             \cup (IF n >= 2 THEN {PathA, join(PathA, NameT)} ELSE {})
             \cup {join(Home, NameNum(i)) : i \in 1..(n - 2)}
        homeChildren == <<NameHidden>> \o [i \in 1..(n - 2) |-> NameNum(i)]
                        \o (IF n >= 2 THEN <<NameA>> ELSE <<>>)
    IN  [p \in P |->
            IF p = Root THEN DirNode(TRUE, <<NameHome>>)
            ELSE IF p = Home THEN DirNode(TRUE, homeChildren)
            ELSE IF p = PathA THEN DirNode(TRUE, <<NameT>>)
            ELSE FileNode]

\* what other processes (the editor among them) do to the filesystem while
\* the program waits: create or remove a file of /h, chmod the directory a
ToggleFile(f, p) ==
    LET d == parent(p)
        name == p[Len(p)]
        IsNot(c) == c # name
    IN  IF Exists(f, p)
        THEN [q \in DOMAIN f \ {p} |->
                IF q = d THEN [f[q] EXCEPT !.children = SelectSeq(f[q].children, IsNot)]
                ELSE f[q]]
        ELSE [q \in DOMAIN f \cup {p} |->
                IF q = p THEN FileNode
                ELSE IF q = d THEN [f[q] EXCEPT !.children = Append(f[q].children, name)]
                ELSE f[q]]

\* the bytes a previewed file is made of: NUL, tab, newline, carriage
\* return, the last control byte, the first printable one, and 0xFF
Bytes == {0, 9, 10, 13, 31, 32, 255}

\* the lengths of a run: 1 and the values next to the three limits
RunLengths ==
    {1, MaxPreviewLines - 1, MaxPreviewLines, BinaryWindow - 1, BinaryWindow,
     MaxPreviewBytes - 1, MaxPreviewBytes}

Runs == {Run(b, n) : b \in Bytes, n \in RunLengths}

\* the contents a previewed file has: empty, one run or two runs
Contents ==
    {<<>>} \cup {<<r>> : r \in Runs} \cup {<<r1, r2>> : r1 \in Runs, r2 \in Runs}

NameAB == <<97, 45, 98>>             \* "a-b"    a directory

NameC == <<99>>                      \* "c"      a file

\* /h holding the one entry `name`, which is `node`; kids are the names and
\* nodes of its children if it is a directory
PreviewFS(name, node, kids) ==
    LET subject == join(Home, name)
        P == {Root, Home, subject} \cup {join(subject, kids[i].name) : i \in 1..Len(kids)}
    IN  [p \in P |->
            IF p = Root THEN DirNode(TRUE, <<NameHome>>)
            ELSE IF p = Home THEN DirNode(TRUE, <<name>>)
            ELSE IF p = subject THEN node
            ELSE LET i == CHOOSE k \in 1..Len(kids) : join(subject, kids[k].name) = p
                 IN  kids[i].node]

Kid(name, node) == [name |-> name, node |-> node]

\* nf files named 01.. and nd directories named after them, in the
\* order the operating system yields them: descending
NumberedKids(nd, nf) ==
    [i \in 1..(nd + nf) |->
        LET k == nd + nf + 1 - i
        IN  Kid(NameNum(k), IF k <= nf THEN FileNode ELSE DirNode(TRUE, <<>>))]

\* the directories a and a-b and the file c
NamedKids ==
    <<Kid(NameA, DirNode(TRUE, <<>>)), Kid(NameC, FileNode), Kid(NameAB, DirNode(TRUE, <<>>))>>

KidNames(kids) == [i \in 1..Len(kids) |-> kids[i].name]

SubjectNames == {NameT, NameImg}

\* the filesystems of the preview runs: a file of every content, readable
\* or not, and a directory of every number of subdirectories and files
FileInputs ==
    {PreviewFS(name, FileOf(r, c), <<>>) :
        name \in SubjectNames, r \in BOOLEAN, c \in Contents}

\* the numbers of subdirectories and of files of a previewed directory
KidCounts == {c \in (0..MaxChildren) \X (0..MaxChildren) : c[1] + c[2] <= MaxChildren}

DirInputs ==
    {PreviewFS(name, DirNode(r, KidNames(NumberedKids(c[1], c[2]))), NumberedKids(c[1], c[2])) :
        name \in SubjectNames, r \in BOOLEAN, c \in KidCounts}
    \cup {PreviewFS(NameT, DirNode(TRUE, KidNames(NamedKids)), NamedKids)}

Chmod(f, p) == [f EXCEPT ![p].readable = ~f[p].readable]

Mutations(f) ==
    {ToggleFile(f, p) : p \in {q \in {PathDash, PathImg} : is_dir(f, parent(q))}}
    \cup {Chmod(f, p) : p \in {q \in {PathA} : is_dir(f, q)}}

----------------------------------------------------------------------------
(* main and App::new.                                                      *)

\* App::new succeeded in filesystem f, the terminal is initialised and
\* App::run is about to test its loop condition for the first time
InitIn(f) ==
    /\ fs = f
    /\ read_dir(f, Home).ok
    /\ current_dir = Home
    /\ files = read_dir(f, Home).entries
    /\ selected = 0
    /\ scroll = 0
    /\ preview_content = NoPreview
    /\ exit = FALSE
    /\ pc = "draw"
    /\ terminal = "ui"
    /\ frame = NoFrame

Init == \E dash \in BOOLEAN, img \in BOOLEAN, aread \in BOOLEAN : InitIn(SmallFS(dash, img, aread))

\* the program waiting for a key in filesystem f, its list read in
\* filesystem f0, the selection on ".." (nothing previewed yet) or moved
\* onto the entry, and a frame of the full height drawn
InitPreviewIn(f0, f, sel) ==
    /\ fs = f
    /\ current_dir = Home
    /\ files = read_dir(f0, Home).entries
    /\ selected = sel
    /\ scroll = 0
    /\ preview_content = IF sel = 0 THEN NoPreview ELSE update_preview(f, Home, files, sel)
    /\ exit = FALSE
    /\ pc = "event"
    /\ terminal = "ui"
    /\ frame = render(MaxRectHeight)

\* the entry is as listed, or (an empty file) was removed after the listing
InitPreview ==
    \E f0 \in FileInputs \cup DirInputs, sel \in {0, 1}, gone \in BOOLEAN :
        LET subject == join(Home, f0[Home].children[1])
        IN  /\ gone => f0[subject] = FileOf(TRUE, <<>>)
            /\ InitPreviewIn(f0, IF gone THEN ToggleFile(f0, subject) ELSE f0, sel)

InitScroll == \E n \in (1..ScrollSmall) \cup {ScrollBig} : InitIn(BigFS(n))

----------------------------------------------------------------------------
(* App::run.                                                               *)

\* RunLoop, had the loop not tested the flag
RunLoop_Forever(e) == "draw"

\* `while !self.exit`: where the loop goes once a handler has returned
RunLoop(e) == IF e THEN "done" ELSE "draw"

\* main restores the terminal when run returns
AfterRun(next_pc, t) == IF next_pc = "done" THEN "restored" ELSE t

\* the tail of every handler: back to the loop condition
Return ==
    /\ pc' = RunLoop(exit')
    /\ terminal' = AfterRun(pc', terminal)

\* terminal.draw: render into a list rectangle of some height
Draw ==
    /\ pc = "draw"
    /\ \E height \in 0..MaxRectHeight : frame' = render(height)
    /\ pc' = "event"
    /\ UNCHANGED <<fs, app, terminal>>

----------------------------------------------------------------------------
(* App::handle_event and App::handle_key_event.                            *)

\* an event that is no key press, or a key with no binding
OtherEvent ==
    /\ pc = "event"
    /\ UNCHANGED <<fs, app, frame>>
    /\ Return

\* KeyCode::Char('q')
KeyQuit ==
    /\ pc = "event"
    /\ exit' = TRUE
    /\ UNCHANGED <<fs, current_dir, files, selected, scroll, preview_content, frame>>
    /\ Return

\* update_scroll, had it scrolled by one on every move
update_scroll_Eager(scr) == scr + 1

\* App::update_scroll: an empty body
update_scroll(scr) == scr

\* KeyCode::Up
KeyUp ==
    /\ pc = "event"
    /\ IF selected > 0
       THEN /\ selected' = selected - 1
            /\ scroll' = update_scroll(scroll)
            /\ preview_content' = update_preview(fs, current_dir, files, selected')
       ELSE UNCHANGED <<selected, scroll, preview_content>>
    /\ UNCHANGED <<fs, current_dir, files, exit, frame>>
    /\ Return

\* KeyDown, had it not tested the end of the list
KeyDown_NoGuard ==
    /\ pc = "event"
    /\ selected' = selected + 1
    /\ scroll' = update_scroll(scroll)
    /\ preview_content' = update_preview(fs, current_dir, files, selected')
    /\ UNCHANGED <<fs, current_dir, files, exit, frame>>
    /\ Return

\* KeyCode::Down
KeyDown ==
    /\ pc = "event"
    /\ IF selected + 1 < Len(files)
       THEN /\ selected' = selected + 1
            /\ scroll' = update_scroll(scroll)
            /\ preview_content' = update_preview(fs, current_dir, files, selected')
       ELSE UNCHANGED <<selected, scroll, preview_content>>
    /\ UNCHANGED <<fs, current_dir, files, exit, frame>>
    /\ Return

\* the entry Enter acts on leads to the editor: it is not ".." and the
\* path it names is not a directory
OpensEditor(f, cd, name) ==
    /\ name # DotDot
    /\ ~is_dir(f, join(cd, trim_end_matches(name, Slash)))

\* self.current_dir once the if/else on the entry's name has run
EnterTarget(f, cd, name) ==
    IF name = DotDot
    THEN IF HasParent(cd) THEN parent(cd) ELSE cd
    ELSE LET candidate == join(cd, trim_end_matches(name, Slash))
         IN  IF is_dir(f, candidate) THEN candidate ELSE cd

\* Relist, had it not reset the selection
Relist_KeepSelected(dir) ==
    LET r == read_dir(fs, dir)
    IN  IF r.ok
        THEN /\ files' = r.entries
             /\ scroll' = 0
             /\ UNCHANGED selected
        ELSE UNCHANGED <<files, selected, scroll>>

\* Relist, had it listed the directory the program was in before the
\* handler assigned current_dir
Relist_OldDir(dir) ==
    LET r == read_dir(fs, current_dir)
    IN  IF r.ok
        THEN /\ files' = r.entries
             /\ selected' = 0
             /\ scroll' = 0
        ELSE UNCHANGED <<files, selected, scroll>>

\* `if let Ok(new_files) = Self::read_dir(&self.current_dir)`, dir being
\* the value self.current_dir has by then
Relist(dir) ==
    LET r == read_dir(fs, dir)
    IN  IF r.ok
        THEN /\ files' = r.entries
             /\ selected' = 0
             /\ scroll' = 0
        ELSE UNCHANGED <<files, selected, scroll>>

\* KeyCode::Enter on ".." or on a path that is a directory
KeyEnter ==
    /\ pc = "event"
    /\ IF selected < Len(files)
       THEN /\ ~OpensEditor(fs, current_dir, files[selected + 1])
            /\ current_dir' = EnterTarget(fs, current_dir, files[selected + 1])
            /\ Relist(current_dir')
       ELSE UNCHANGED <<current_dir, files, selected, scroll>>
    /\ UNCHANGED <<fs, preview_content, exit, frame>>
    /\ Return

\* KeyCode::Enter on anything else, up to the start of the editor:
\* open_file_in_vim restores the terminal and runs vim, which blocks
KeyEnterFile ==
    /\ pc = "event"
    /\ selected < Len(files)
    /\ OpensEditor(fs, current_dir, files[selected + 1])
    /\ terminal' = "restored"
    /\ pc' = "editor"
    /\ UNCHANGED <<fs, app, frame>>

EditorOutcomes == {"success", "failure", "spawn_error"}

\* the terminal when open_file_in_vim returns: `status()?` returns early
\* when vim cannot be started, before ratatui::init
open_file_in_vim(outcome) == IF outcome = "spawn_error" THEN "restored" ELSE "ui"

\* EditorExit, had the handler propagated the error of open_file_in_vim
\* out of run instead of dropping it
EditorExit_Propagate(outcome) ==
    /\ pc = "editor"
    /\ IF outcome = "spawn_error"
       THEN /\ pc' = "done"
            /\ terminal' = "restored"
            /\ UNCHANGED <<files, selected, scroll>>
       ELSE /\ Relist(current_dir)
            /\ pc' = RunLoop(exit)
            /\ terminal' = AfterRun(pc', open_file_in_vim(outcome))
    /\ UNCHANGED <<fs, current_dir, preview_content, exit, frame>>

\* the rest of KeyCode::Enter once Command::status has returned: the
\* Result of open_file_in_vim is dropped and the directory is listed again
EditorExit(outcome) ==
    /\ pc = "editor"
    /\ Relist(current_dir)
    /\ pc' = RunLoop(exit)
    /\ terminal' = AfterRun(pc', open_file_in_vim(outcome))
    /\ UNCHANGED <<fs, current_dir, preview_content, exit, frame>>

EditorReturn == \E outcome \in EditorOutcomes : EditorExit(outcome)

\* another process changes the filesystem while the program is blocked in
\* event::read or in the editor
FsChange ==
    /\ pc \in {"event", "editor"}
    /\ fs' \in Mutations(fs)
    /\ UNCHANGED <<app, pc, terminal, frame>>

Next ==
    \/ Draw
    \/ OtherEvent
    \/ KeyQuit
    \/ KeyUp
    \/ KeyDown
    \/ KeyEnter
    \/ KeyEnterFile
    \/ EditorReturn
    \/ FsChange

Spec == Init /\ [][Next]_vars

\* the program in a filesystem nothing else touches
NextScroll ==
    \/ Draw
    \/ OtherEvent
    \/ KeyQuit
    \/ KeyUp
    \/ KeyDown
    \/ KeyEnter
    \/ KeyEnterFile
    \/ EditorReturn

\* one move in a filesystem that stays as it is
NextPreview == KeyUp \/ KeyDown

SpecPreview == InitPreview /\ [][NextPreview]_vars

SpecScroll == InitScroll /\ [][NextScroll]_vars

----------------------------------------------------------------------------
(* Properties.                                                             *)

\* the program is in Browsing (not in the editor, not terminated)
Browsing == pc \in {"draw", "event"}

\* C1: in every reachable state the entry list is non-empty and holds the
\* parent entry "..", and 0 <= selected < files.len()
C1_SelectionInRange ==
    /\ Len(files) >= 1
    /\ \E i \in 1..Len(files) : files[i] = DotDot
    /\ 0 <= selected
    /\ selected < Len(files)

\* C1: an Enter on the directory a has failed to list it: the program is
\* in a with the list of /h and a selection beyond the first entry
C1_Witness ==
    /\ pc = "draw"
    /\ current_dir = PathA
    /\ ~CanList(fs, PathA)
    /\ selected >= 1

\* C2: after a render with a positive max_visible the selected entry is
\* inside the rendered window: scroll <= selected <= scroll + max_visible - 1
C2_SelectedVisible ==
    (pc = "event" /\ frame.max_visible >= 1) =>
        /\ frame.scroll <= selected
        /\ selected <= frame.scroll + frame.max_visible - 1

\* C3: a directory switch whose listing fails is rejected: current_dir
\* changes only to a directory that can be listed
C3_FailedSwitchRejected ==
    [][current_dir' # current_dir => CanList(fs, current_dir')]_vars

\* C4: every list read_dir returns has ".." first and the other entries in
\* non-decreasing byte order
C4_SentinelFirst ==
    /\ files[1] = DotDot
    /\ \A i \in 2..(Len(files) - 1) : ~StrLess(files[i + 1], files[i])

\* C5: a command that changes the selection, the list or the directory,
\* and the return from the editor, leave the preview generated for the
\* entry then selected
C5_PreviewFollowsSelection ==
    [][(/\ pc \in {"event", "editor"}
        /\ pc' = "draw"
        /\ \/ pc = "editor"
           \/ <<current_dir, files, selected>>' # <<current_dir, files, selected>>)
       => preview_content' = update_preview(fs', current_dir', files', selected')]_vars

\* C6: a step that changes current_dir to a directory that can be listed
\* leaves the fresh listing of that directory, selected = 0 and scroll = 0
C6_ResetOnDirectoryChange ==
    [][(current_dir' # current_dir /\ CanList(fs, current_dir'))
       => /\ files' = read_dir(fs', current_dir').entries
          /\ selected' = 0
          /\ scroll' = 0]_vars

\* C6: the program has just entered the directory a and shows its listing
C6_Witness ==
    /\ pc = "draw"
    /\ current_dir = PathA
    /\ files = read_dir(fs, PathA).entries
    /\ selected = 0
    /\ scroll = 0

\* C7: Quit ends the main loop; once the exit flag is set it stays set and
\* no step changes current_dir, files, selected, scroll or the preview
C7_QuitIsFinal ==
    [][/\ (pc = "event" /\ exit') => pc' = "done"
       /\ pc = "done" => pc' = "done"
       /\ exit => /\ exit'
                  /\ UNCHANGED <<current_dir, files, selected, scroll, preview_content>>]_vars

\* C7: the program has terminated after Quit, with a selection moved and a
\* preview computed before
C7_Witness ==
    /\ pc = "done"
    /\ exit
    /\ selected >= 1
    /\ preview_content # NoPreview

\* C8: Enter on an entry that is no directory suspends the program for the
\* editor, and for every outcome of the editor the program is back in
\* Browsing, not terminated, in the same current_dir, with the directory
\* listed again
C8_EditorRoundTrip ==
    [][/\ (pc # "editor" /\ pc' = "editor")
            => /\ pc = "event"
               /\ OpensEditor(fs, current_dir, files[selected + 1])
               /\ UNCHANGED app
       /\ (pc = "editor" /\ pc' # "editor")
            => /\ pc' = "draw"
               /\ ~exit'
               /\ current_dir' = current_dir
               /\ CanList(fs, current_dir) =>
                    /\ files' = read_dir(fs, current_dir).entries
                    /\ selected' = 0]_vars

\* C8: the program is back in Browsing after an editor that could not be
\* started (only then is the terminal left restored while the loop runs)
C8_Witness ==
    /\ pc = "draw"
    /\ ~exit
    /\ terminal = "restored"
    /\ CanList(fs, current_dir)
    /\ files = read_dir(fs, current_dir).entries

\* C9: rendering with max_visible = h >= 1 and m = min(3, h), the offset is
\* 0 while selected < h - m and min(max_scroll, selected + m - (h - 1))
\* from selected >= h - m on; with 100 entries and h = 10 it is 0 for
\* selections 0..6 and 1 at selection 7
C9_ScrollFormula ==
    (pc = "event" /\ frame.max_visible >= 1) =>
        LET h == frame.max_visible
            m == Min(3, h)
            max_scroll == IF Len(files) > h THEN Len(files) - h ELSE 0
        IN  /\ selected < h - m => frame.scroll = 0
            /\ selected >= h - m => frame.scroll = Min(max_scroll, selected + m - (h - 1))
            /\ (Len(files) = 100 /\ h = 10 /\ selected <= 6) => frame.scroll = 0
            /\ (Len(files) = 100 /\ h = 10 /\ selected = 7) => frame.scroll = 1

\* C9: 100 entries rendered in 10 rows with the selection moved down to 7
C9_Witness ==
    /\ pc = "event"
    /\ Len(files) = 100
    /\ frame.max_visible = 10
    /\ selected = 7
    /\ frame.scroll = 1

\* C10: the offset a render uses is between 0 and
\* max(0, files.len() - max_visible)
C10_ScrollBounded ==
    pc = "event" =>
        /\ 0 <= frame.scroll
        /\ frame.scroll <= (IF Len(files) > frame.max_visible
                            THEN Len(files) - frame.max_visible ELSE 0)

\* C10: a render whose offset is the largest one allowed, and not 0
C10_Witness ==
    /\ pc = "event"
    /\ frame.scroll >= 1
    /\ frame.scroll = Len(files) - frame.max_visible

\* the variant of PreviewResult a stored message stands for
VariantOf(tag) ==
    IF tag \in {"Unable", "DirError", "ReadError"} THEN "AccessError"
    ELSE IF tag = "Binary" THEN "BinaryNotice"
    ELSE IF tag = "InvalidUtf8" THEN "InvalidEncoding"
    ELSE IF tag = "Text" THEN "TextPreview"
    ELSE tag

\* the file or directory the selected entry names, links followed
SelectedPath == canonicalize(fs, join(current_dir, trim_end_matches(files[selected + 1], Slash)))

\* the variant the decision order gives the selected entry; a filesystem
\* failure at the step that needs the filesystem is an AccessError
DecisionOrder ==
    LET name == files[selected + 1]
        q == SelectedPath
        content == fs[q].content
        InWindow(i) == ByteLen(SubSeq(content, 1, i - 1)) < BinaryWindow
    IN  IF name = DotDot THEN "ParentHint"
        ELSE IF ~Exists(fs, q) \/ fs[q].kind \notin {"dir", "file"} THEN "AccessError"
        ELSE IF fs[q].kind = "dir"
             THEN (IF fs[q].readable THEN "DirectorySummary" ELSE "AccessError")
        ELSE IF to_lowercase(extension(q[Len(q)])) \in ImageExts THEN "ImagePlaceholder"
        ELSE IF ByteLen(content) >= MaxPreviewBytes + 1 THEN "TooLarge"
        ELSE IF ~fs[q].readable THEN "AccessError"
        ELSE IF \E i \in 1..Len(content) :
                    InWindow(i) /\ content[i].b \in (0..31) \ {9, 10, 13}
             THEN "BinaryNotice"
        ELSE IF \E i \in 1..Len(content) : content[i].b > 127 THEN "InvalidEncoding"
        ELSE "TextPreview"

\* C11: the preview generated for the selected entry is the variant the
\* decision order gives: parent hint, access error, directory summary,
\* image placeholder, too large (above 1,048,576 bytes), binary (a NUL or
\* a control byte other than 9, 10, 13 among the first 1024 bytes),
\* invalid encoding, text
C11_DecisionOrder ==
    (selected < Len(files) /\ preview_content # NoPreview)
        => VariantOf(preview_content.tag) = DecisionOrder

\* C11: a file of exactly 1,048,576 bytes, its only control byte behind
\* the first 1024 bytes, has been given a text preview
C11_Witness ==
    /\ pc = "draw"
    /\ selected = 1
    /\ preview_content.tag = "Text"
    /\ preview_content.size = MaxPreviewBytes
    /\ \E i \in 1..Len(fs[SelectedPath].content) : fs[SelectedPath].content[i].b = 0

\* the number of lines of a text: its newlines, and one more for a last
\* line that no newline ends
LineCountOf(content) ==
    LET newlines == ByteLen(SelectSeq(content, LAMBDA r : r.b = 10))
    IN  IF content # <<>> /\ content[Len(content)].b # 10 THEN newlines + 1 ELSE newlines

\* the i-th of a sequence of lines
RECURSIVE NthLine(_, _)
NthLine(ls, i) == IF i <= ls[1].n THEN ls[1].line ELSE NthLine(Tail(ls), i - ls[1].n)

\* C12: the text preview of a file of n lines shows its first min(n, 50)
\* lines in order, reports n lines, and announces n - 50 more lines if
\* and only if n > 50
C12_LineTruncation ==
    (selected < Len(files) /\ preview_content.tag = "Text") =>
        LET content == fs[SelectedPath].content
            n == LineCountOf(content)
            shown == preview_content.lines
        IN  /\ preview_content.total_lines = n
            /\ count(shown) = Min(n, MaxPreviewLines)
            /\ \A i \in 1..count(shown) : NthLine(shown, i) = NthLine(lines(content), i)
            /\ (preview_content.more > 0) <=> (n > MaxPreviewLines)
            /\ n > MaxPreviewLines => preview_content.more = n - MaxPreviewLines

\* C12: a file of 51 lines has been previewed: 50 lines shown, 1 more
C12_Witness ==
    /\ pc = "draw"
    /\ preview_content.tag = "Text"
    /\ preview_content.total_lines = MaxPreviewLines + 1
    /\ count(preview_content.lines) = MaxPreviewLines
    /\ preview_content.more = 1

\* the items of a directory summary for the given names of directories
\* and of files (with the directory they are in), each group sorted by name
ItemsByName(dnames, fnames, q) ==
    LET ds == SortSeq(dnames, StrLess)
        fls == SortSeq(fnames, StrLess)
    IN  [i \in 1..Len(ds) |-> DirMark \o ds[i] \o <<Slash>>]
        \o [i \in 1..Len(fls) |->
              FileMark \o fls[i] \o size_info(entry_len(fs, join(q, fls[i])))]

\* C13: the summary of a directory with d visible subdirectories and f
\* visible files reports d and f, lists the first min(d + f, 30) items of
\* the directories sorted by name followed by the files sorted by name,
\* and reports max(0, d + f - 30) more items
C13_DirectorySummary ==
    (pc = "draw" /\ selected < Len(files) /\ preview_content.tag = "DirectorySummary") =>
        LET q == SelectedPath
            IsDir(name) == fs[join(q, name)].kind = "dir"
            IsOther(name) == fs[join(q, name)].kind # "dir"
            visible == SelectSeq(fs[q].children, NotHidden)
            dnames == SelectSeq(visible, IsDir)
            fnames == SelectSeq(visible, IsOther)
            total == Len(dnames) + Len(fnames)
        IN  /\ preview_content.dirs = Len(dnames)
            /\ preview_content.files = Len(fnames)
            /\ Len(preview_content.items) = Min(total, MaxPreviewItems)
            /\ preview_content.items
                 = SubSeq(ItemsByName(dnames, fnames, q), 1, Min(total, MaxPreviewItems))
            /\ preview_content.more = saturating_sub(total, MaxPreviewItems)

\* C14: with the same max_visible = h in two consecutive renders and
\* m = min(3, h), if the selection minus the previous render's offset lies
\* in [m, h - m), the next render uses the previous render's offset
C14_Hysteresis ==
    [][(/\ pc = "draw"
        /\ pc' = "event"
        /\ frame.max_visible >= 1
        /\ frame'.max_visible = frame.max_visible
        /\ selected - frame.scroll >= Min(3, frame.max_visible)
        /\ selected - frame.scroll < frame.max_visible - Min(3, frame.max_visible))
       => frame'.scroll = frame.scroll]_vars

\* C15: Up and Down move the selection by exactly one step, change nothing
\* at the two ends of the list, and never change the stored scroll, the
\* list or the directory
C15_MoveFrame ==
    [][/\ KeyUp =>
            /\ IF selected > 0 THEN selected' = selected - 1
               ELSE UNCHANGED <<selected, preview_content>>
            /\ 0 <= selected' /\ selected' < Len(files)
            /\ UNCHANGED <<scroll, files, current_dir>>
       /\ KeyDown =>
            /\ IF selected < Len(files) - 1 THEN selected' = selected + 1
               ELSE UNCHANGED <<selected, preview_content>>
            /\ 0 <= selected' /\ selected' < Len(files)
            /\ UNCHANGED <<scroll, files, current_dir>>]_vars

\* C15: the selection has been moved down to the last entry of a list of
\* three or more entries
C15_Witness ==
    /\ pc = "draw"
    /\ Len(files) >= 3
    /\ selected = Len(files) - 1
    /\ preview_content = update_preview(fs, current_dir, files, selected)

\* C17: whenever the main loop runs, the terminal is in the mode
\* ratatui::init set up, also after an editor hand-off
C17_TerminalReacquired == Browsing => terminal = "ui"

\* C19: the stored scroll is 0 in every reachable state, and the offset a
\* render uses is the one computed from a stored scroll of 0
C19_StoredScrollZero ==
    /\ scroll = 0
    /\ pc = "event" =>
         frame.scroll = update_scroll_with_height(selected, 0, Len(files), frame.max_visible)

\* C19: a render has used an offset that is not 0 while the stored scroll
\* is 0, after the selection moved
C19_Witness ==
    /\ pc = "event"
    /\ selected >= 1
    /\ frame.scroll >= 1
    /\ scroll = 0

\* C20: the bounds of the slice files[start..end] a render takes satisfy
\* start <= end <= files.len(), and `max_visible - 1` is evaluated only
\* with max_visible > 0
C20_SliceInBounds ==
    pc = "event" =>
        /\ 0 <= frame.start
        /\ frame.start <= frame.end
        /\ frame.end <= Len(files)
        /\ frame.sub_evaluated => frame.max_visible > 0

\* C20: a render that evaluated the subtraction and whose window, scrolled
\* down, ends at the last entry of a list longer than the window
C20_Witness ==
    /\ pc = "event"
    /\ frame.sub_evaluated
    /\ frame.start >= 1
    /\ frame.end = Len(files)
    /\ frame.max_visible < Len(files)

\* the marker read_dir put on the name: listed as a directory, or as a file
ListedAsDirectory(name) == name # DotDot /\ name[Len(name)] = Slash

ListedAsFile(name) == name # DotDot /\ name[Len(name)] # Slash

\* C16: an entry listed as a file is never entered as a directory nor
\* previewed as a directory summary, and an entry listed as a directory
\* never launches the editor
C16_KindConsistent ==
    [][/\ (KeyEnter /\ selected < Len(files) /\ ListedAsFile(files[selected + 1]))
            => current_dir' = current_dir
       /\ ((KeyUp \/ KeyDown) /\ selected' # selected /\ ListedAsFile(files[selected' + 1]))
            => preview_content'.tag # "DirectorySummary"
       /\ (KeyEnterFile /\ selected < Len(files))
            => ~ListedAsDirectory(files[selected + 1])]_vars

\* C18: Enter on ".." while current_dir is the filesystem root changes
\* neither current_dir nor the list nor the selection
C18_RootParentNoOp ==
    [][(/\ KeyEnter
        /\ current_dir = Root
        /\ selected < Len(files)
        /\ files[selected + 1] = DotDot)
       => UNCHANGED <<current_dir, files, selected>>]_vars

====
